---- MODULE Spec2Model ----
(***************************************************************************)
(* Model of the ActiveRecallApp component                                  *)
(* (src/src/components/ActiveRecallApp.tsx): the phase state machine       *)
(* intro -> study -> distract -> recall -> results, its one-second         *)
(* countdown (two React effects and a setTimeout), the selection set, the  *)
(* scorer run by submit, and the memoized recall grid.                     *)
(*                                                                         *)
(* One step of the model is one browser event (a click or a timeout        *)
(* firing) together with the re-renders and effect runs it causes, which   *)
(* React completes before the next 1000 ms timeout can fire.               *)
(*                                                                         *)
(* The repository holds an earlier copy of the component as well (study    *)
(* time 30, "Skip" buttons on the study and distract screens); it is not   *)
(* what this module models.                                                *)
(*                                                                         *)
(* Word texts are written in ASCII (Bla, Stjarna, Sno, Fagel, Karlekn,     *)
(* Trad stand for the source's accented spellings).                        *)
(***************************************************************************)
EXTENDS Integers, Sequences, FiniteSets, TLC

VARIABLES phase, timer, selected, submitted, scores, grid, pending, ticks,
          lastOp, restarted

vars == <<phase, timer, selected, submitted, scores, grid, pending, ticks,
          lastOp, restarted>>

(***************************************************************************)
(* Bounds of the model (not program constants).                            *)
(***************************************************************************)
\* How many tiles the modelled participant toggles freely, in any order; the
\* other tiles are selected as one run of neighbouring tiles (see Clicks).
MaxFreeClicks == 2

\* Largest step between the positions of the target words of a selection
\* handed directly to the scorer.
MaxStride == 2

\* How many outcomes of the random shuffle are explored.
MaxShuffles == 2

(***************************************************************************)
(* Data                                                                    *)
(***************************************************************************)
WORDS ==
  << [word |-> "Apple",   lang |-> "EN", pos |-> 1],
     [word |-> "Hund",    lang |-> "SV", pos |-> 2],
     [word |-> "Memory",  lang |-> "EN", pos |-> 3],
     [word |-> "Bla",     lang |-> "SV", pos |-> 4],
     [word |-> "River",   lang |-> "EN", pos |-> 5],
     [word |-> "Stjarna", lang |-> "SV", pos |-> 6],
     [word |-> "Garden",  lang |-> "EN", pos |-> 7],
     [word |-> "Flicka",  lang |-> "SV", pos |-> 8],
     [word |-> "Thunder", lang |-> "EN", pos |-> 9],
     [word |-> "Skog",    lang |-> "SV", pos |-> 10],
     [word |-> "Candle",  lang |-> "EN", pos |-> 11],
     [word |-> "Sno",     lang |-> "SV", pos |-> 12],
     [word |-> "Journey", lang |-> "EN", pos |-> 13],
     [word |-> "Fagel",   lang |-> "SV", pos |-> 14],
     [word |-> "Horizon", lang |-> "EN", pos |-> 15] >>

FALSE_POSITIVES_SkogFirst ==
  << [word |-> "Skog",    lang |-> "SV"],
     [word |-> "Lampa",   lang |-> "SV"],
     [word |-> "Ocean",   lang |-> "EN"],
     [word |-> "Karlekn", lang |-> "SV"],
     [word |-> "Shadow",  lang |-> "EN"],
     [word |-> "Trad",    lang |-> "SV"],
     [word |-> "Flame",   lang |-> "EN"],
     [word |-> "Himmel",  lang |-> "SV"],
     [word |-> "Pebble",  lang |-> "EN"],
     [word |-> "Natt",    lang |-> "SV"] >>

FALSE_POSITIVES ==
  << [word |-> "Forest",  lang |-> "EN"],
     [word |-> "Lampa",   lang |-> "SV"],
     [word |-> "Ocean",   lang |-> "EN"],
     [word |-> "Karlekn", lang |-> "SV"],
     [word |-> "Shadow",  lang |-> "EN"],
     [word |-> "Trad",    lang |-> "SV"],
     [word |-> "Flame",   lang |-> "EN"],
     [word |-> "Himmel",  lang |-> "SV"],
     [word |-> "Pebble",  lang |-> "EN"],
     [word |-> "Natt",    lang |-> "SV"] >>

STUDY_TIME == 40

\* The study time the intro screen announces: ["Study", "30 sec"]
IntroStudySeconds == 30

DISTRACT_TIME == 300

EBBINGHAUS ==
  << [label |-> "0 min",  retention |-> 100],
     [label |-> "5 min",  retention |-> 58],
     [label |-> "20 min", retention |-> 44],
     [label |-> "1 hr",   retention |-> 36],
     [label |-> "1 day",  retention |-> 28],
     [label |-> "1 wk",   retention |-> 23] >>

\* type Phase
Phase == {"intro", "study", "distract", "recall", "results"}

\* scores === null
Null == [isNull |-> TRUE]

(***************************************************************************)
(* Array helpers, computed as the JavaScript array methods compute them.   *)
(***************************************************************************)
\* arr.filter(keep).length for a predicate given as the set of kept indices
RECURSIVE CountFrom(_, _, _)
CountFrom(arr, keep, i) ==
  IF i > Len(arr) THEN 0
  ELSE (IF keep[i] THEN 1 ELSE 0) + CountFrom(arr, keep, i + 1)

\* targets.includes(w)
Includes(arr, w) == \E i \in 1..Len(arr) : arr[i] = w

MathRound_Truncate(num, den) == num \div den

\* Math.round(x) for x = num / den >= 0: the nearest integer, halves up
MathRound(num, den) == (2 * num + den) \div (2 * den)

(***************************************************************************)
(* The recall grid: shuffle([...targets tagged, ...decoys tagged])         *)
(***************************************************************************)
GridItems_DecoysTagged ==
  [i \in 1..Len(WORDS) |->
      [word |-> WORDS[i].word, lang |-> WORDS[i].lang, pos |-> WORDS[i].pos,
       isTarget |-> TRUE]]
  \o
  [i \in 1..Len(FALSE_POSITIVES) |->
      [word |-> FALSE_POSITIVES[i].word, lang |-> FALSE_POSITIVES[i].lang,
       isTarget |-> TRUE]]

GridItems ==
  [i \in 1..Len(WORDS) |->
      [word |-> WORDS[i].word, lang |-> WORDS[i].lang, pos |-> WORDS[i].pos,
       isTarget |-> TRUE]]
  \o
  [i \in 1..Len(FALSE_POSITIVES) |->
      [word |-> FALSE_POSITIVES[i].word, lang |-> FALSE_POSITIVES[i].lang,
       isTarget |-> FALSE]]

\* One outcome of the sort with a random comparator: the k-th explored order.
\* Order 0 is the input order; order k starts 3k items in and walks the
\* array cyclically StepOf(k, Len(arr)) items at a time, a step that shares
\* no factor with the 25 items of the grid, so every item is visited once.
RECURSIVE StepOf(_, _)
StepOf(k, n) == IF k = 0 THEN 1 ELSE (7 * StepOf(k - 1, n)) % n

ShuffleOrder(arr, k) ==
  [i \in 1..Len(arr) |->
      arr[(((i - 1) * StepOf(k, Len(arr)) + 3 * k) % Len(arr)) + 1]]

\* shuffle(arr): the set of orders Math.random may produce (bounded)
shuffle(arr) == { ShuffleOrder(arr, k) : k \in 0..(MaxShuffles - 1) }

GridMemo_EveryRender(g, oldPhase, ph) == shuffle(GridItems)

GridMemo_PerSession(g, oldPhase, ph) ==
  IF ph = "intro" /\ oldPhase # "intro" THEN shuffle(GridItems) ELSE {g}

\* useMemo(() => shuffle([...]), []): the values a re-render may find in
\* `grid`, given the cached value g; the dependency list is empty, so the
\* factory is not run again whatever the phase was and is.
GridMemo(g, oldPhase, ph) == {g}

(***************************************************************************)
(* Timer effects                                                           *)
(***************************************************************************)
TimerEffect_OnlyFromZero(oldPhase, ph, t) ==
  IF ph = oldPhase \/ t # 0 THEN t
  ELSE IF ph = "study" THEN STUDY_TIME
  ELSE IF ph = "distract" THEN DISTRACT_TIME
  ELSE t

\* useEffect(..., [phase]): loads the countdown when the phase has changed
TimerEffect(oldPhase, ph, t) ==
  IF ph = oldPhase THEN t
  ELSE IF ph = "study" THEN STUDY_TIME
  ELSE IF ph = "distract" THEN DISTRACT_TIME
  ELSE t

CountdownEffect_AnyPhase(ph, t) ==
  IF t <= 0 THEN {} ELSE {[phase |-> ph, timer |-> t]}

CountdownEffect_StudyOnly(ph, t) ==
  IF ph # "study" \/ t <= 0 THEN {} ELSE {[phase |-> ph, timer |-> t]}

\* useEffect(..., [phase, timer]): body. The timeouts it leaves scheduled;
\* each remembers the phase and timer of the render that scheduled it.
CountdownEffect(ph, t) ==
  IF (ph # "study" /\ ph # "distract") \/ t <= 0 THEN {}
  ELSE {[phase |-> ph, timer |-> t]}

Rescheduled_NoCleanup(oldPending, oldPhase, oldTimer, ph, t) ==
  LET first  == IF ph # oldPhase \/ t # oldTimer
                  THEN oldPending \cup CountdownEffect(ph, t) ELSE oldPending
      loaded == TimerEffect(oldPhase, ph, t)
  IN  IF loaded # t THEN first \cup CountdownEffect(ph, loaded) ELSE first

\* The timeouts scheduled once React has re-rendered after a state change
\* from (oldPhase, oldTimer) to (ph, t): the countdown effect re-runs
\* (cleanup: clearTimeout, then body) whenever phase or timer changed, first
\* for the render that shows (ph, t), then for the render that shows the
\* timer loaded by the phase effect.
Rescheduled(oldPending, oldPhase, oldTimer, ph, t) ==
  LET first  == IF ph # oldPhase \/ t # oldTimer
                  THEN CountdownEffect(ph, t) ELSE oldPending
      loaded == TimerEffect(oldPhase, ph, t)
  IN  IF loaded # t THEN CountdownEffect(ph, loaded) ELSE first

(***************************************************************************)
(* Handlers as functions of the state they read                            *)
(***************************************************************************)
toggleWord_CapFirst(sel, isSubmitted, word) ==
  IF isSubmitted THEN sel
  ELSE IF Cardinality(sel) >= Len(WORDS) THEN sel
  ELSE IF word \in sel THEN sel \ {word}
  ELSE sel \cup {word}

toggleWord_AddOnly(sel, isSubmitted, word) ==
  IF isSubmitted THEN sel
  ELSE IF Cardinality(sel) >= Len(WORDS) THEN sel
  ELSE sel \cup {word}

toggleWord_OffByOne(sel, isSubmitted, word) ==
  IF isSubmitted THEN sel
  ELSE IF word \in sel THEN sel \ {word}
  ELSE IF Cardinality(sel) > Len(WORDS) THEN sel
  ELSE sel \cup {word}

toggleWord_NoCap(sel, isSubmitted, word) ==
  IF isSubmitted THEN sel
  ELSE IF word \in sel THEN sel \ {word}
  ELSE sel \cup {word}

\* toggleWord(word): the next value of `selected`
toggleWord(sel, isSubmitted, word) ==
  IF isSubmitted THEN sel
  ELSE IF word \in sel THEN sel \ {word}
  ELSE IF Cardinality(sel) >= Len(WORDS) THEN sel
  ELSE sel \cup {word}

\* submit: const targets = WORDS.map(w => w.word)
targets == [i \in 1..Len(WORDS) |-> WORDS[i].word]

\* submit: matched
matched(sel) ==
  [i \in 1..Len(WORDS) |->
      [word |-> WORDS[i].word, lang |-> WORDS[i].lang, pos |-> WORDS[i].pos,
       recalled |-> (WORDS[i].word \in sel)]]

falsePosCount_OfTargets(sel) ==
  Cardinality({w \in sel : Includes(targets, w)})

falsePosCount_NoFilter(sel) == Cardinality(sel)

\* submit: falsePosCount
falsePosCount(sel) == Cardinality({w \in sel : ~Includes(targets, w)})

LangLength_Recalled(m, lang) ==
  CountFrom(m, [i \in 1..Len(m) |-> m[i].lang = lang /\ m[i].recalled], 1)

\* submit: en.length / sv.length
LangLength(m, lang) ==
  CountFrom(m, [i \in 1..Len(m) |-> m[i].lang = lang], 1)

\* submit: en.filter(w => w.recalled).length
LangRecalled(m, lang) ==
  CountFrom(m, [i \in 1..Len(m) |-> m[i].lang = lang /\ m[i].recalled], 1)

\* submit: enRate / svRate
LangRate(m, lang) == MathRound(LangRecalled(m, lang) * 100, LangLength(m, lang))

total_CountsMisses(m) == CountFrom(m, [i \in 1..Len(m) |-> ~m[i].recalled], 1)

\* submit: total
total(m) == CountFrom(m, [i \in 1..Len(m) |-> m[i].recalled], 1)

audienceRet_OfGrid(m) ==
  MathRound(total(m) * 100, Len(WORDS) + Len(FALSE_POSITIVES))

\* submit: audienceRet
audienceRet(m) == MathRound(total(m) * 100, Len(WORDS))

forgetting_FirstPoint(ret) ==
  [i \in 1..Len(EBBINGHAUS) |->
      [label |-> EBBINGHAUS[i].label, retention |-> EBBINGHAUS[i].retention,
       audience |-> IF i - 1 = 0 THEN <<ret>> ELSE <<>>]]

\* submit: forgetting (index 1 of the 0-based array is the second point)
forgetting(ret) ==
  [i \in 1..Len(EBBINGHAUS) |->
      [label |-> EBBINGHAUS[i].label, retention |-> EBBINGHAUS[i].retention,
       audience |-> IF i - 1 = 1 THEN <<ret>> ELSE <<>>]]

\* submit: the object passed to setScores
Scores(sel) ==
  LET m == matched(sel) IN
  [matched |-> m,
   enRate |-> LangRate(m, "EN"),
   svRate |-> LangRate(m, "SV"),
   total |-> total(m),
   forgetting |-> forgetting(audienceRet(m)),
   audienceRet |-> audienceRet(m),
   falsePosCount |-> falsePosCount(sel)]

goHome_KeepSubmitted ==
  [phase |-> "intro", selected |-> {}, submitted |-> TRUE, scores |-> Null]

goHome_KeepScores ==
  [phase |-> "intro", selected |-> {}, submitted |-> FALSE, scores |-> scores]

goHome_KeepSelected ==
  [phase |-> "intro", selected |-> selected, submitted |-> FALSE, scores |-> Null]

\* goHome: the values it sets
goHome == [phase |-> "intro", selected |-> {}, submitted |-> FALSE, scores |-> Null]

getTileState_NoMiss(item, sel, isSubmitted) ==
  IF ~isSubmitted THEN (IF item.word \in sel THEN "selected" ELSE "idle")
  ELSE IF item.isTarget /\ item.word \in sel THEN "correct"
  ELSE IF ~item.isTarget /\ item.word \in sel THEN "false-pos"
  ELSE "idle"

\* getTileState(item)
getTileState(item, sel, isSubmitted) ==
  IF ~isSubmitted THEN (IF item.word \in sel THEN "selected" ELSE "idle")
  ELSE IF item.isTarget /\ item.word \in sel THEN "correct"
  ELSE IF item.isTarget /\ item.word \notin sel THEN "miss"
  ELSE IF ~item.isTarget /\ item.word \in sel THEN "false-pos"
  ELSE "idle"

(***************************************************************************)
(* The tiles the modelled participant clicks                               *)
(***************************************************************************)
\* Every tile of the grid carries one word
GridWords == {GridItems[i].word : i \in 1..Len(GridItems)}

\* The tiles toggled freely
FreeWords ==
  {GridItems[((9 * k) % Len(GridItems)) + 1].word : k \in 1..MaxFreeClicks}

\* The other tiles, in the order the grid shows them
SweepSeq(g) ==
  LET rest == SelectSeq(g, LAMBDA item : item.word \notin FreeWords)
  IN  [i \in 1..Len(rest) |-> rest[i].word]

\* The tiles the participant may click next in the recall grid `g` with `sel`
\* selected: a free tile, or a tile that starts, extends or shortens the run
\* of selected neighbouring tiles (the grid read cyclically).
Clicks(g, sel) ==
  LET seq == SweepSeq(g)
      n   == Len(seq)
      run == {i \in 1..n : seq[i] \in sel}
      before(i) == IF i = 1 THEN n ELSE i - 1
      after(i)  == IF i = n THEN 1 ELSE i + 1
  IN  FreeWords \cup
      { seq[i] : i \in { j \in 1..n :
           \/ run = {}
           \/ j \notin run /\ (before(j) \in run \/ after(j) \in run)
           \/ j \in run /\ (before(j) \notin run \/ after(j) \notin run) } }

\* In the results grid one target tile and one decoy tile are clicked.
ResultsClickWords == {WORDS[1].word, FALSE_POSITIVES[1].word}

(***************************************************************************)
(* Initial state: the component after mount                                *)
(***************************************************************************)
Init ==
  /\ phase = "intro"
  /\ timer = 0
  /\ selected = {}
  /\ submitted = FALSE
  /\ scores = Null
  /\ grid \in shuffle(GridItems)
  /\ pending = Rescheduled({}, "intro", 0, "intro", 0)
  /\ ticks = 0
  /\ lastOp = [op |-> "mount", from |-> "intro"]
  /\ restarted = FALSE

(***************************************************************************)
(* Events.  ticks counts the timeouts delivered since the phase was        *)
(* entered, lastOp names the last event and the phase it happened in and   *)
(* restarted tells whether goHome has run since the mount; none of them is *)
(* read by any handler.                                                    *)
(***************************************************************************)
\* The re-render after the handlers set the phase to ph and the timer to t
Render(ph, t) ==
  /\ phase' = ph
  /\ timer' = TimerEffect(phase, ph, t)
  /\ pending' = Rescheduled(pending, phase, timer, ph, t)
  /\ grid' \in GridMemo(grid, phase, ph)

\* "Begin Experiment" button of the intro screen: setPhase("study")
Start ==
  /\ phase = "intro"
  /\ Render("study", timer)
  /\ ticks' = 0
  /\ lastOp' = [op |-> "start", from |-> phase]
  /\ UNCHANGED <<selected, submitted, scores, restarted>>

TimeoutCallback_SkipDistract(closure, t) ==
  IF closure.timer = 1
    THEN [phase |-> "recall", timer |-> t]
    ELSE [phase |-> closure.phase, timer |-> t - 1]

TimeoutCallback_ZeroFirst(closure, t) ==
  [phase |-> closure.phase, timer |-> t - 1]

TimeoutCallback_LateAdvance(closure, t) ==
  IF closure.timer = 0
    THEN [phase |-> IF closure.phase = "study" THEN "distract" ELSE "recall",
          timer |-> t]
    ELSE [phase |-> closure.phase, timer |-> t - 1]

\* The state the timeout callback sets, from the phase and timer it closed over
TimeoutCallback(closure, t) ==
  IF closure.timer = 1
    THEN [phase |-> IF closure.phase = "study" THEN "distract" ELSE "recall",
          timer |-> t]
    ELSE [phase |-> closure.phase, timer |-> t - 1]

\* A scheduled timeout fires after 1000 ms
Tick ==
  \E closure \in pending :
    LET next == TimeoutCallback(closure, timer) IN
    /\ phase' = next.phase
    /\ timer' = TimerEffect(phase, next.phase, next.timer)
    /\ pending' = Rescheduled(pending \ {closure}, phase, timer,
                              next.phase, next.timer)
    /\ ticks' = IF next.phase # phase THEN 0 ELSE ticks + 1
    /\ grid' \in GridMemo(grid, phase, next.phase)
    /\ lastOp' = [op |-> "tick", from |-> phase]
    /\ UNCHANGED <<selected, submitted, scores, restarted>>

TileOnClick_Flip(ph, sel, isSubmitted, word) ==
  IF word \in sel THEN sel \ {word} ELSE sel \cup {word}

TileOnClick_ResultsDeselects(ph, sel, isSubmitted, word) ==
  IF ph = "recall" THEN toggleWord(sel, isSubmitted, word) ELSE sel \ {word}

\* onClick of a WordTile: the recall grid calls toggleWord, the results grid
\* has an empty handler
TileOnClick(ph, sel, isSubmitted, word) ==
  IF ph = "recall" THEN toggleWord(sel, isSubmitted, word) ELSE sel

\* A click on the tile of `word` in the recall grid
ClickTile(word) ==
  /\ phase = "recall"
  /\ \E i \in 1..Len(grid) : grid[i].word = word
  /\ word \in Clicks(grid, selected)
  /\ selected' = TileOnClick(phase, selected, submitted, word)
  /\ lastOp' = [op |-> IF word \in selected THEN "tile-remove"
                       ELSE IF Cardinality(selected) >= Len(WORDS)
                         THEN "tile-capped"
                       ELSE "tile-add",
                from |-> phase]
  /\ grid' \in GridMemo(grid, phase, phase)
  /\ UNCHANGED <<phase, timer, submitted, scores, pending, ticks, restarted>>

\* A click on the tile of `word` in the results grid
ClickResultsTile(word) ==
  /\ phase = "results"
  /\ scores # Null
  /\ \E i \in 1..Len(grid) : grid[i].word = word
  /\ selected' = TileOnClick(phase, selected, submitted, word)
  /\ lastOp' = [op |-> "tile-results", from |-> phase]
  /\ grid' \in GridMemo(grid, phase, phase)
  /\ UNCHANGED <<phase, timer, submitted, scores, pending, ticks, restarted>>

\* submit()
Submit ==
  /\ scores' = Scores(selected)
  /\ submitted' = TRUE
  /\ Render("results", timer)
  /\ ticks' = 0
  /\ UNCHANGED <<selected, restarted>>

SubmitDisabled_Never(sel) == FALSE

\* disabled={selected.size === 0} of the submit button
SubmitDisabled(sel) == Cardinality(sel) = 0

\* A click on "Submit & See Analytics": submit() unless the button is disabled
ClickSubmit ==
  /\ phase = "recall"
  /\ IF SubmitDisabled(selected)
       THEN UNCHANGED <<phase, timer, selected, submitted, scores, grid,
                        pending, ticks, restarted>>
       ELSE Submit
  /\ lastOp' = [op |-> IF selected = {} THEN "submit-empty" ELSE "submit",
                from |-> phase]

\* goHome() called while the component is in any phase
Reset ==
  /\ selected' = goHome.selected
  /\ submitted' = goHome.submitted
  /\ scores' = goHome.scores
  /\ Render(goHome.phase, timer)
  /\ ticks' = 0
  /\ lastOp' = [op |-> "goHome", from |-> phase]
  /\ restarted' = TRUE

\* "Home" / "Run Again" buttons of the results screen
GoHome ==
  /\ phase = "results"
  /\ scores # Null
  /\ Reset

Next ==
  \/ Start
  \/ Tick
  \/ \E word \in GridWords : ClickTile(word)
  \/ \E word \in ResultsClickWords : ClickResultsTile(word)
  \/ ClickSubmit
  \/ GoHome

\* The component driven through its rendered buttons and its timeout
Spec == Init /\ [][Next]_vars

(***************************************************************************)
(* The controller with goHome callable in every phase                      *)
(***************************************************************************)
NextAnyReset ==
  \/ Start
  \/ Tick
  \/ \E word \in GridWords : ClickTile(word)
  \/ \E word \in ResultsClickWords : ClickResultsTile(word)
  \/ ClickSubmit
  \/ Reset

SpecAnyReset == Init /\ [][NextAnyReset]_vars

(***************************************************************************)
(* The component with every scheduled timeout eventually firing            *)
(***************************************************************************)
SpecFair == Init /\ [][Next]_vars /\ WF_vars(Tick)

(***************************************************************************)
(* The scorer applied to selections made on the full grid                  *)
(***************************************************************************)
\* The target words at positions a, a+s, a+2s, ... up to b
TargetRun(a, b, s) ==
  {WORDS[i].word : i \in {j \in a..b : (j - a) % s = 0}}

\* The decoys at positions c..d
DecoyRun(c, d) == {FALSE_POSITIVES[i].word : i \in c..d}

\* The selections handed to the scorer: a run of targets and a run of decoys,
\* within the cap that toggleWord enforces
ScoreSelections ==
  { sel \in { TargetRun(a, b, s) \cup DecoyRun(c, d) :
                a \in 1..Len(WORDS), b \in 0..Len(WORDS), s \in 1..MaxStride,
                c \in 1..Len(FALSE_POSITIVES), d \in 0..Len(FALSE_POSITIVES) } :
      Cardinality(sel) \in 1..Len(WORDS) }

\* The recall phase with a selection already made
InitScore ==
  /\ phase = "recall"
  /\ timer = 1
  /\ selected \in ScoreSelections
  /\ submitted = FALSE
  /\ scores = Null
  /\ grid \in shuffle(GridItems)
  /\ pending = {}
  /\ ticks = 0
  /\ lastOp = [op |-> "tile-add", from |-> "recall"]
  /\ restarted = FALSE

NextScore ==
  \/ ClickSubmit
  \/ \E word \in ResultsClickWords : ClickResultsTile(word)

SpecScore == InitScore /\ [][NextScore]_vars

(***************************************************************************)
(* submit() called with any selection, the ones the grid cannot produce    *)
(* included                                                                *)
(***************************************************************************)
\* A text that is neither a target nor a decoy
UnknownWords == {"Zebra"}

\* The empty selection, the selections of the grid, and both with an unknown
\* word added
ScorerInputs ==
  LET known == {{}} \cup ScoreSelections
  IN  known \cup {sel \cup UnknownWords : sel \in known}

InitScorer ==
  /\ phase = "recall"
  /\ timer = 1
  /\ selected \in ScorerInputs
  /\ submitted = FALSE
  /\ scores = Null
  /\ grid \in shuffle(GridItems)
  /\ pending = {}
  /\ ticks = 0
  /\ lastOp = [op |-> "mount", from |-> "recall"]
  /\ restarted = FALSE

\* submit() itself, not the button
CallSubmit ==
  /\ phase = "recall"
  /\ Submit
  /\ lastOp' = [op |-> IF selected = {} THEN "submit-empty" ELSE "submit",
                from |-> phase]

NextScorer == CallSubmit

SpecScorer == InitScorer /\ [][NextScorer]_vars

(***************************************************************************)
(* Properties                                                              *)
(***************************************************************************)
TargetTexts == {WORDS[i].word : i \in 1..Len(WORDS)}

DecoyTexts == {FALSE_POSITIVES[i].word : i \in 1..Len(FALSE_POSITIVES)}

TileOps == {"tile-add", "tile-remove", "tile-capped", "tile-results"}

\* The five legal edges of the phase machine
Edges ==
  { <<"intro", "study">>, <<"study", "distract">>, <<"distract", "recall">>,
    <<"recall", "results">>, <<"results", "intro">> }

\* C1: every change of phase is one of the five edges intro->study,
\* study->distract, distract->recall, recall->results, results->intro.
C1_OnlyFiveEdges == [][phase' # phase => <<phase, phase'>> \in Edges]_vars

\* A full cycle has been walked: the last edge, results->intro, was just taken.
C1_Witness ==
  phase = "intro" /\ lastOp = [op |-> "goHome", from |-> "results"] /\ timer = 1

\* The countdown of a phase: the timer is the length minus the ticks delivered
C2_Counting(ph, length) ==
  phase = ph => ticks \in 0..(length - 1) /\ timer = length - ticks

\* A tick delivered in phase ph: the length-th tick moves on to `next`, every
\* earlier one stays and takes exactly 1 off the timer; no other step leaves ph
C2_TickIn(ph, length, next) ==
  phase = ph =>
    /\ lastOp'.op = "tick" /\ ticks + 1 = length => phase' = next
    /\ lastOp'.op = "tick" /\ ticks + 1 < length =>
         phase' = ph /\ timer' = timer - 1 /\ ticks' = ticks + 1
    /\ phase' # ph => lastOp'.op = "tick" /\ ticks + 1 = length /\ phase' = next

\* C2: after start the phase is study for exactly STUDY_TIME delivered ticks
\* and becomes distract on the STUDY_TIME-th; it is then distract for exactly
\* DISTRACT_TIME ticks and becomes recall on the DISTRACT_TIME-th; a tick that
\* does not advance the phase takes exactly 1 off the timer.
C2_CountdownLengths ==
  /\ [](lastOp.op = "start" => phase = "study" /\ ticks = 0)
  /\ [](C2_Counting("study", STUDY_TIME))
  /\ [](C2_Counting("distract", DISTRACT_TIME))
  /\ [][/\ C2_TickIn("study", STUDY_TIME, "distract")
        /\ C2_TickIn("distract", DISTRACT_TIME, "recall")]_vars

\* Both countdowns have run to their end.
C2_Witness ==
  phase = "recall" /\ lastOp = [op |-> "tick", from |-> "distract"]

\* C3: a ScoreResult exists exactly when the phase is results.
C3_ScoresIffResults == (scores # Null) <=> (phase = "results")

\* A ScoreResult has just been created by a submission.
C3_Witness ==
  phase = "results" /\ scores # Null /\ lastOp.op = "submit" /\ submitted

\* C4: the selection never holds more words than there are targets (15).
C4_SelectionWithinCap ==
  Len(WORDS) = 15 /\ Cardinality(selected) <= Len(WORDS)

\* The fifteenth word has just been added.
C4_Witness ==
  phase = "recall" /\ Cardinality(selected) = 15 /\ lastOp.op = "tile-add"

\* C5: a click on an unselected word while 15 words are selected changes
\* nothing: the selection is as it was and the phase is still recall.
C5_ToggleAtCapIsInert ==
  [][lastOp'.op = "tile-capped" =>
        /\ Cardinality(selected) = 15
        /\ selected' = selected
        /\ phase' = "recall"
        /\ UNCHANGED <<timer, submitted, scores, grid, pending>>]_vars

\* A sixteenth word has just been refused.
C5_Witness ==
  phase = "recall" /\ Cardinality(selected) = 15 /\ lastOp.op = "tile-capped"

C7_EmptySubmitRejected ==
  [][/\ lastOp'.op = "submit-empty" =>
          /\ phase' = "recall"
          /\ scores' = Null
          /\ submitted' = FALSE
          /\ selected' = {}
     /\ phase = "recall" /\ phase' = "results" => selected # {}]_vars

\* Submit has just been clicked with nothing selected.
C7_Witness ==
  phase = "recall" /\ lastOp.op = "submit-empty" /\ selected = {}

\* C8: goHome, called in whatever phase, leaves the phase intro, the selection
\* empty, submitted false and no ScoreResult.
C8_ResetFromAnyPhase ==
  lastOp.op = "goHome" =>
    phase = "intro" /\ selected = {} /\ submitted = FALSE /\ scores = Null

\* goHome has just been called in the middle of recall.
C8_Witness ==
  lastOp = [op |-> "goHome", from |-> "recall"] /\ phase = "intro"

\* C9: the ScoreResult has one entry per target in list order, marked recalled
\* exactly when the target's text is selected, and total is the number of
\* targets whose text is selected.
C9_RecalledMarks ==
  scores # Null =>
    /\ Len(scores.matched) = Len(WORDS)
    /\ \A i \in 1..Len(WORDS) :
         /\ scores.matched[i].word = WORDS[i].word
         /\ scores.matched[i].pos = i
         /\ scores.matched[i].recalled <=> (WORDS[i].word \in selected)
    /\ scores.total = Cardinality(selected \cap TargetTexts)

\* A selection with some targets in, some out and a decoy has been scored.
C9_Witness ==
  /\ scores # Null
  /\ Cardinality(selected \cap TargetTexts) = 4
  /\ Cardinality(selected \cap DecoyTexts) = 1
  /\ scores.total = 4

\* C10: falsePosCount is the number of selected words that are not target
\* texts; 2 decoys and 5 targets give falsePosCount 2 and total 5.
C10_FalsePositives ==
  scores # Null =>
    /\ scores.falsePosCount = Cardinality(selected \ TargetTexts)
    /\ (Cardinality(selected \cap DecoyTexts) = 2
         /\ Cardinality(selected \cap TargetTexts) = 5
        => scores.falsePosCount = 2 /\ scores.total = 5)

\* Two decoys and five targets have been scored.
C10_Witness ==
  /\ scores # Null
  /\ Cardinality(selected \cap DecoyTexts) = 2
  /\ Cardinality(selected \cap TargetTexts) = 5
  /\ scores.falsePosCount = 2

\* x is p / q rounded to the nearest integer, halves up (p >= 0, q > 0)
IsRoundedHalfUp(x, p, q) == 2 * q * x - q <= 2 * p /\ 2 * p < 2 * q * x + q

\* The positions of the targets of a language, and of those selected
LangTargets(lang) == {i \in 1..Len(WORDS) : WORDS[i].lang = lang}

LangSelected(lang) == {i \in LangTargets(lang) : WORDS[i].word \in selected}

RateOf(lang) == IF lang = "EN" THEN scores.enRate ELSE scores.svRate

\* C11: for EN (8 targets) and SV (7 targets) the recall rate is an integer
\* in 0..100 equal to 100 * recalled / count rounded half-up; 1 of 8 gives 13
\* and 3 of 8 gives 38.
C11_RecallRates ==
  scores # Null =>
    /\ Cardinality(LangTargets("EN")) = 8
    /\ Cardinality(LangTargets("SV")) = 7
    /\ \A lang \in {"EN", "SV"} :
         /\ RateOf(lang) \in 0..100
         /\ IsRoundedHalfUp(RateOf(lang), 100 * Cardinality(LangSelected(lang)),
                            Cardinality(LangTargets(lang)))
    /\ (Cardinality(LangSelected("EN")) = 1 => scores.enRate = 13)
    /\ (Cardinality(LangSelected("EN")) = 3 => scores.enRate = 38)

\* One of the eight EN targets was recalled: 12.5 is rounded up to 13.
C11_Witness ==
  /\ scores # Null
  /\ Cardinality(LangSelected("EN")) = 1
  /\ Cardinality(LangSelected("SV")) = 2
  /\ scores.enRate = 13
  /\ scores.svRate = 29

\* The first eight target texts
FirstEight == {WORDS[i].word : i \in 1..8}

\* C12: audienceRet is 100 * total / 15 rounded half-up; the first 8 target
\* texts alone give total 8, audienceRet 53 and falsePosCount 0.
C12_Retention ==
  scores # Null =>
    /\ IsRoundedHalfUp(scores.audienceRet,
                       100 * Cardinality(selected \cap TargetTexts), 15)
    /\ (selected = FirstEight =>
          scores.total = 8 /\ scores.audienceRet = 53 /\ scores.falsePosCount = 0)

\* Exactly the first eight targets have been scored.
C12_Witness ==
  scores # Null /\ selected = FirstEight /\ scores.audienceRet = 53

\* C13: forgetting is the six reference points in order with retention 100,
\* 58, 44, 36, 28, 23; the "5 min" point alone carries an observed value,
\* which is audienceRet.
C13_ForgettingCurve ==
  scores # Null =>
    /\ [i \in 1..Len(scores.forgetting) |-> scores.forgetting[i].label]
         = <<"0 min", "5 min", "20 min", "1 hr", "1 day", "1 wk">>
    /\ [i \in 1..Len(scores.forgetting) |-> scores.forgetting[i].retention]
         = <<100, 58, 44, 36, 28, 23>>
    /\ \A i \in 1..Len(scores.forgetting) :
         scores.forgetting[i].audience =
           IF scores.forgetting[i].label = "5 min"
             THEN <<scores.audienceRet>> ELSE <<>>

\* Seven of fifteen targets were recalled and the "5 min" point shows 47.
C13_Witness ==
  /\ scores # Null
  /\ Cardinality(selected \cap TargetTexts) = 7
  /\ scores.forgetting[2].audience = <<47>>

\* How often an item occurs in the grid
Occurrences(item) == Cardinality({j \in 1..Len(grid) : grid[j] = item})

\* C14: the grid is a permutation of the targets and the decoys: 25 items,
\* every target and every decoy exactly once, and an item is tagged isTarget
\* exactly when its text is a target text.
C14_GridIsPermutation ==
  /\ Len(grid) = Len(WORDS) + Len(FALSE_POSITIVES)
  /\ Len(grid) = 25
  /\ \A i \in 1..Len(WORDS) :
       Occurrences([word |-> WORDS[i].word, lang |-> WORDS[i].lang,
                    pos |-> WORDS[i].pos, isTarget |-> TRUE]) = 1
  /\ \A i \in 1..Len(FALSE_POSITIVES) :
       Occurrences([word |-> FALSE_POSITIVES[i].word,
                    lang |-> FALSE_POSITIVES[i].lang, isTarget |-> FALSE]) = 1
  /\ \A j \in 1..Len(grid) : grid[j].isTarget <=> (grid[j].word \in TargetTexts)

\* A grid that is not in the order of the lists is on show in recall.
C14_Witness ==
  phase = "recall" /\ grid # GridItems /\ grid[1].word = "Bla"

\* C15: the steps that enter recall, stay in recall or results, or go from
\* recall to results leave the grid as it was.
C15_GridFixedInSession ==
  [][phase' \in {"recall", "results"} => grid' = grid]_vars

\* A selection made on a shuffled grid is shown scored on that grid.
C15_Witness ==
  /\ phase = "results"
  /\ lastOp.op = "submit"
  /\ Cardinality(selected) = 3
  /\ grid = ShuffleOrder(GridItems, 1)

CountdownPhases == {"study", "distract"}

C17_CountdownCancelled ==
  /\ Cardinality(pending) <= 1
  /\ phase \notin CountdownPhases => pending = {}
  /\ lastOp.op = "tick" => lastOp.from \in CountdownPhases

\* goHome was called mid-distract: nothing is pending in intro.
C17_Witness ==
  /\ lastOp = [op |-> "goHome", from |-> "distract"]
  /\ phase = "intro"
  /\ timer = 299
  /\ pending = {}

\* C18: in study and distract the timer is never 0: the tick that finds the
\* timer at 1 is the step that changes the phase, and a tick changes the phase
\* only then.
C18_ExhaustingTickAdvances ==
  phase \in CountdownPhases /\ lastOp'.op = "tick" =>
    ((timer = 1) <=> (phase' # phase))

C18_TickAndAdvanceAtomic ==
  /\ [](phase \in CountdownPhases => timer >= 1)
  /\ [][C18_ExhaustingTickAdvances]_vars

\* The tick that exhausted the study countdown has entered distract.
C18_Witness ==
  /\ phase = "distract"
  /\ lastOp = [op |-> "tick", from |-> "study"]
  /\ timer = DISTRACT_TIME
  /\ ticks = 0

\* C19: with ticks delivered, study always leads to recall; ticks change the
\* phase only out of study and distract, and every change of phase out of
\* another phase is a click (start, submit, goHome).
C19_ReachesRecall ==
  /\ (phase = "study") ~> (phase = "recall")
  /\ [][phase' # phase =>
          /\ lastOp'.op = "tick" <=> phase \in CountdownPhases
          /\ lastOp'.op \in {"tick", "start", "submit", "goHome"}]_vars

\* Recall has been entered by the countdown alone.
C19_Witness ==
  /\ phase = "recall"
  /\ lastOp = [op |-> "tick", from |-> "distract"]
  /\ selected = {}
  /\ submitted = FALSE
  /\ pending = {}

\* C20: the study phase lasts the 30 seconds the intro screen announces: once
\* 30 ticks have been delivered the phase is no longer study.
C20_StudyLastsThirtySeconds ==
  phase = "study" => ticks < IntroStudySeconds

\* The ScoreResult and the selection are as they were
C21_Frozen == scores' = scores /\ selected' = selected /\ submitted' = submitted

\* A step that starts and ends in results: a tile click, a repeated submit or
\* a tick, if any of them can happen there
C21_StepInResults == phase = "results" /\ phase' = "results" => C21_Frozen

\* C21: between a submit and the next reset no step changes the ScoreResult
\* or the selection, and in every results state the stored total and
\* false-positive count are the ones recomputed from the current selection.
C21_ScoreResultImmutable ==
  /\ [][C21_StepInResults]_vars
  /\ [](phase = "results" =>
          /\ scores # Null
          /\ scores.total = Cardinality(selected \cap TargetTexts)
          /\ scores.falsePosCount = Cardinality(selected \ TargetTexts)
          /\ scores = Scores(selected))

\* A tile has been clicked in the results grid after a submission of two
\* targets, the clickable one among them, and one decoy.
C21_Witness ==
  /\ phase = "results" /\ lastOp.op = "tile-results"
  /\ scores.total = 2 /\ scores.falsePosCount = 1
  /\ WORDS[1].word \in selected

\* The grid tiles that carry the text w
TilesOf(w) == {j \in 1..Len(grid) : grid[j].word = w}

\* C22: the 15 target texts and the 10 decoy texts are pairwise distinct, so
\* every grid tile has a text of its own and a selected text names one tile.
C22_TextsDistinct ==
  /\ Len(WORDS) = 15 /\ Cardinality(TargetTexts) = Len(WORDS)
  /\ Len(FALSE_POSITIVES) = 10
  /\ Cardinality(DecoyTexts) = Len(FALSE_POSITIVES)
  /\ TargetTexts \cap DecoyTexts = {}
  /\ \A i, j \in 1..Len(grid) : grid[i].word = grid[j].word => i = j
  /\ \A w \in selected : Cardinality(TilesOf(w)) = 1

\* A target tile and a decoy tile are selected in a shuffled grid.
C22_Witness ==
  /\ phase = "recall" /\ lastOp.op = "tile-add" /\ grid # GridItems
  /\ Cardinality(selected \cap TargetTexts) = 1
  /\ Cardinality(selected \cap DecoyTexts) = 1

Languages == {"EN", "SV"}

\* A complete ScoreResult: every field is present and in its range
C23_WellFormed(r, sel) ==
  /\ Len(r.matched) = Len(WORDS)
  /\ \A i \in 1..Len(WORDS) : r.matched[i].recalled \in BOOLEAN
  /\ r.enRate \in 0..100 /\ r.svRate \in 0..100 /\ r.audienceRet \in 0..100
  /\ r.total \in 0..Len(WORDS)
  /\ r.falsePosCount \in 0..Cardinality(sel)
  /\ Len(r.forgetting) = Len(EBBINGHAUS)

\* C23: the scorer is total.  For every selection, empty, partial, all 15
\* targets, decoys only or with an unknown word, every divisor it uses is
\* positive (each language has targets) and a submit yields a complete
\* ScoreResult.
C23_ScorerTotal ==
  /\ \A lang \in Languages : LangLength(matched(selected), lang) > 0
  /\ Len(WORDS) > 0
  /\ lastOp.op \in {"submit", "submit-empty"} =>
        /\ phase = "results" /\ scores # Null
        /\ C23_WellFormed(scores, selected)
  /\ lastOp.op = "submit-empty" =>
        /\ scores.total = 0 /\ scores.falsePosCount = 0
        /\ scores.enRate = 0 /\ scores.svRate = 0 /\ scores.audienceRet = 0

\* All 15 targets and an unknown word have been scored.
C23_Witness ==
  /\ phase = "results" /\ lastOp.op = "submit"
  /\ selected = TargetTexts \cup UnknownWords
  /\ scores.total = 15 /\ scores.falsePosCount = 1

\* The selection with the membership of w flipped
Flipped(sel, w) == IF w \in sel THEN sel \ {w} ELSE sel \cup {w}

\* A click in the recall grid that is not refused by the cap
C24_ToggleStep ==
  phase = "recall" /\ lastOp'.op \in {"tile-add", "tile-remove"} =>
    /\ lastOp'.op = "tile-remove" =>
          \E w \in selected : selected' = selected \ {w}
    /\ lastOp'.op = "tile-add" =>
          /\ Cardinality(selected) < 15
          /\ \E w \in GridWords \ selected : selected' = selected \cup {w}
    /\ \A w \in GridWords : ClickTile(w) => selected' = Flipped(selected, w)
    /\ UNCHANGED <<phase, timer, scores, submitted, grid, pending>>

\* C24: in recall before submission a toggle of w flips the membership of w
\* and of no other word: w is removed if it was selected, also at the cap of
\* 15, and added if it was not and fewer than 15 words were selected; the
\* phase, the timer and the ScoreResult are as they were.
C24_ToggleFlipsOneWord == [][C24_ToggleStep]_vars

\* A word has just been removed from a selection that was at the cap.
C24_Witness ==
  phase = "recall" /\ lastOp.op = "tile-remove" /\ Cardinality(selected) = 14

\* toggleWord applied twice to the same word
ToggledTwice(sel, isSubmitted, w) ==
  toggleWord(toggleWord(sel, isSubmitted, w), isSubmitted, w)

\* C25: in every recall state before submission, toggling any word twice
\* gives back the selection, whether the word was selected or not and
\* whether or not the selection is at the cap (where an unselected word is
\* refused twice and a selected one is removed and added again).
C25_ToggleInvolution ==
  phase = "recall" /\ ~submitted =>
    \A w \in GridWords : ToggledTwice(selected, submitted, w) = selected

\* A word was added and removed again: the selection is back to empty.
C25_Witness ==
  phase = "recall" /\ lastOp.op = "tile-remove" /\ selected = {}

\* The length of the countdown of a timed phase
FullTime(ph) == IF ph = "study" THEN STUDY_TIME ELSE DISTRACT_TIME

\* A step into study or distract loads the full time and schedules the only
\* pending timeout with it
C26_EntryStep ==
  phase' \in CountdownPhases /\ phase' # phase =>
    /\ timer' = FullTime(phase')
    /\ pending' = {[phase |-> phase', timer |-> FullTime(phase')]}
    /\ ticks' = 0

\* A tick moves on only as the last tick of a full countdown
C26_AdvanceStep ==
  phase \in CountdownPhases /\ phase' # phase /\ lastOp'.op = "tick" =>
    ticks + 1 = FullTime(phase)

\* What the timer holds where nothing counts down: the 1 the last countdown
\* left, which goHome does not clear, or the initial 0
C26_Leftover ==
  /\ phase \in {"recall", "results"} => timer = 1
  /\ phase = "intro" => timer = (IF restarted THEN 1 ELSE 0)

\* C26: every entry to study or distract loads the timer with the full
\* STUDY_TIME or DISTRACT_TIME before a tick can act, whatever the timer held:
\* the leftover 1 (on entering distract, and on entering study after a reset)
\* never advances the phase early, and the countdowns of every session are
\* as long as those of the first.
C26_TimerLoadedOnEntry ==
  /\ [][C26_EntryStep /\ C26_AdvanceStep]_vars
  /\ []C26_Leftover
  /\ [](phase \in CountdownPhases => timer + ticks = FullTime(phase))

\* A later session has just entered study from an intro whose timer held 1.
C26_Witness ==
  /\ restarted /\ phase = "study" /\ lastOp = [op |-> "start", from |-> "intro"]
  /\ timer = STUDY_TIME /\ ticks = 0
  /\ pending = {[phase |-> "study", timer |-> STUDY_TIME]}

\* C27: in intro, study and distract the selection is empty and submitted is
\* false; submitted is true exactly in results; so every recall phase, the
\* first and the later ones, begins with an empty selection and toggling
\* enabled.
C27_CleanBeforeRecall ==
  /\ phase \in {"intro", "study", "distract"} => selected = {} /\ ~submitted
  /\ submitted <=> phase = "results"
  /\ phase = "recall" /\ lastOp = [op |-> "tick", from |-> "distract"] =>
        selected = {} /\ ~submitted

\* The recall phase of a later session has just begun.
C27_Witness ==
  /\ restarted /\ phase = "recall"
  /\ lastOp = [op |-> "tick", from |-> "distract"]
  /\ selected = {} /\ ~submitted

\* C28: in every ScoreResult reached through the grid, the recalled targets
\* and the false positives add up to the size of the submitted selection, so
\* to a number from 1 to 15, and the false-positive count is the number of
\* selected decoys, at most 10.
C28_CountsPartitionSelection ==
  scores # Null =>
    /\ scores.total + scores.falsePosCount = Cardinality(selected)
    /\ scores.total + scores.falsePosCount \in 1..15
    /\ scores.falsePosCount = Cardinality(selected \cap DecoyTexts)
    /\ scores.falsePosCount <= 10 /\ Len(FALSE_POSITIVES) = 10

\* A full selection of 15 words with several decoys among them was scored.
C28_Witness ==
  /\ phase = "results" /\ lastOp.op = "submit"
  /\ Cardinality(selected) = 15 /\ scores.falsePosCount >= 2
  /\ scores.total + scores.falsePosCount = 15

\* The rendered state of the tile at grid position j
TileStateAt(j) == getTileState(grid[j], selected, submitted)

\* The grid positions whose tile is rendered in state st
TilesIn(st) == {j \in 1..Len(grid) : TileStateAt(j) = st}

\* C29: getTileState agrees with the ScoreResult.  Before submission a tile is
\* 'selected' if its text is in the selection and 'idle' otherwise.  In
\* results every target tile is 'correct' or 'miss' and every decoy tile
\* 'false-pos' or 'idle'; the 'correct' tiles are as many as the recalled
\* targets, the 'false-pos' tiles as many as the false positives and the
\* 'miss' tiles as many as the targets not recalled.
C29_TilesAgreeWithScores ==
  /\ phase = "recall" =>
        \A j \in 1..Len(grid) :
          TileStateAt(j) = (IF grid[j].word \in selected THEN "selected"
                            ELSE "idle")
  /\ phase = "results" =>
        /\ \A j \in 1..Len(grid) :
              IF grid[j].isTarget THEN TileStateAt(j) \in {"correct", "miss"}
              ELSE TileStateAt(j) \in {"false-pos", "idle"}
        /\ Cardinality(TilesIn("correct")) = scores.total
        /\ Cardinality(TilesIn("false-pos")) = scores.falsePosCount
        /\ Cardinality(TilesIn("miss")) = Len(WORDS) - scores.total

\* A results grid that shows tiles of all four states.
C29_Witness ==
  /\ phase = "results" /\ lastOp.op = "submit"
  /\ \A st \in {"correct", "miss", "false-pos", "idle"} : TilesIn(st) # {}

\* C30: the grid is built once, at mount, and never rebuilt: goHome and the
\* start that follows it leave the order of the grid as it was, and so does
\* every other step, so every session shows the order of the first.
C30_GridBuiltOnce ==
  /\ [][lastOp'.op \in {"goHome", "start"} => grid' = grid]_vars
  /\ [][grid' = grid]_vars
  /\ [](grid \in shuffle(GridItems))

\* A later session selects tiles of the shuffled grid.
C30_Witness ==
  /\ restarted /\ phase = "recall" /\ lastOp.op = "tile-add"
  /\ grid = ShuffleOrder(GridItems, 1)

====
